---- MODULE Spec2Model ----
(***************************************************************************)
(* Model of src/main.py: the OllamaLLM client (three HTTP operations) and  *)
(* the Streamlit script main(), which the framework runs from top to       *)
(* bottom once per user event.  One script run is one action.              *)
(*                                                                         *)
(* Text values are sequences of symbols; a symbol is a one-character       *)
(* string or an opaque run of characters (a whole literal of the source).  *)
(* The empty text is << >>.                                                *)
(***************************************************************************)
EXTENDS Naturals, Sequences, FiniteSets, TLC

VARIABLES
    session_state,      \* st.session_state: attribute name -> value
    selectbox,          \* state of the "Select Model" widget kept by the framework
    uploaded_file,      \* state of the file_uploader widget kept by the framework
    rendered,           \* widgets the last run created (the ones a user can operate)
    status_ok,          \* last run: value of llm.check_ollama_status()
    available_models,   \* last run: local available_models (<< >> when not fetched)
    selected_model,     \* last run: local selected_model
    document_context,   \* last run: local document_context
    fault,              \* exception that ended the last run, "none" when it completed
    rerun_requested,    \* the last run ended in st.rerun(); the script runs again at once
    event,              \* the user event that started the last run
    trace,              \* the last run's effects on the transcript and the service, in order
    submitted,          \* number of non-empty submissions entered since start or last clear
    client              \* SpecClient only: the last client call and its outcome

vars == << session_state, selectbox, uploaded_file, rendered, status_ok,
           available_models, selected_model, document_context, fault,
           rerun_requested, event, trace, submitted, client >>

sessionVars == << session_state, selectbox, uploaded_file, rendered, status_ok,
                  available_models, selected_model, document_context, fault,
                  rerun_requested, event, trace, submitted >>

-----------------------------------------------------------------------------
(* Bounds *)

MaxTurns == 4

-----------------------------------------------------------------------------
(* Python values *)

Return(v) == [exc |-> "none", val |-> v]

Raise(e) == [exc |-> e, val |-> << >>]

Range(s) == { s[i] : i \in DOMAIN s }

IsPrefix(s, t) == Len(s) <= Len(t) /\ \A i \in 1..Len(s) : s[i] = t[i]

SetAttr(obj, k, v) == [x \in (DOMAIN obj) \cup {k} |-> IF x = k THEN v ELSE obj[x]]

DelAttr(obj, k) == [x \in (DOMAIN obj) \ {k} |-> obj[x]]

dict_get(d, k, default) == IF k \in DOMAIN d THEN d[k] ELSE default

EmptyDict == [x \in {} |-> << >>]

-----------------------------------------------------------------------------
(* The inference service, as the client sees it: a request either fails in *)
(* the network layer or yields a status code and a body; a body is JSON    *)
(* (an object) or not.                                                     *)

NetworkError(detail) == [kind |-> "error", detail |-> detail]

Http(code, body) == [kind |-> "http", status_code |-> code, body |-> body]

NotJson == [json |-> FALSE, obj |-> EmptyDict]

Json(obj) == [json |-> TRUE, obj |-> obj]

Entry(name) == [name |-> name]

Catalog(names) == Http(200, Json([models |-> [i \in 1..Len(names) |-> Entry(names[i])]]))

TagsResponses ==
    { NetworkError("ConnectionError"), NetworkError("Timeout"),
      Http(503, NotJson), Http(404, Json(EmptyDict)),
      Http(200, NotJson), Http(200, Json(EmptyDict)),
      Catalog(<< >>), Catalog(<<"phi", "mistral">>), Catalog(<<"mistral", "phi">>),
      Catalog(<<"llama2", "codellama", "mistral">>),
      Http(200, Json([models |-> <<Entry("mistral"), EmptyDict>>])) }

GenerateResponses ==
    { NetworkError("ConnectionError"), NetworkError("Timeout"),
      Http(500, NotJson), Http(404, Json([response |-> <<"H", "i">>])),
      Http(200, NotJson), Http(200, Json(EmptyDict)),
      Http(200, Json([response |-> <<"H", "i">>])),
      Http(200, Json([response |-> << >>])) }

requests_get(resp) == IF resp.kind = "error" THEN Raise(resp.detail) ELSE Return(resp)

requests_post(payload, resp) == IF resp.kind = "error" THEN Raise(resp.detail) ELSE Return(resp)

response_json(resp) == IF resp.body.json THEN Return(resp.body.obj) ELSE Raise("JSONDecodeError")

-----------------------------------------------------------------------------
(* class OllamaLLM *)

check_ollama_status_unguarded(resp) ==
    LET r == requests_get(resp)
    IN  IF r.exc # "none" THEN r ELSE Return(r.val.status_code = 200)

check_ollama_status(resp) ==
    LET r == requests_get(resp)
    IN  IF r.exc # "none"
        THEN Return(FALSE)                          \* except: return False
        ELSE Return(r.val.status_code = 200)

get_available_models(resp) ==
    LET r == requests_get(resp)
    IN  IF r.exc # "none" THEN Return(<< >>)        \* except: return []
        ELSE IF r.val.status_code = 200
        THEN LET j == response_json(r.val)
             IN  IF j.exc # "none" THEN Return(<< >>)
                 ELSE LET models == dict_get(j.val, "models", << >>)
                      IN  IF \E i \in 1..Len(models) : "name" \notin DOMAIN models[i]
                          THEN Return(<< >>)        \* KeyError, caught
                          ELSE Return([i \in 1..Len(models) |-> models[i].name])
        ELSE Return(<< >>)

full_prompt_always_joined(prompt, context) == context \o <<"\n", "\n">> \o prompt

full_prompt(prompt, context) ==
    IF context # << >> THEN context \o <<"\n", "\n">> \o prompt ELSE prompt

generate_response(prompt, model, context, resp) ==
    LET payload == [model |-> model, prompt |-> full_prompt(prompt, context), stream |-> FALSE]
        r == requests_post(payload, resp)
        sent == <<payload>>
    IN  IF r.exc # "none"
        THEN [exc |-> "none", val |-> <<"Error: ", r.exc>>, sent |-> sent]
        ELSE IF r.val.status_code = 200
        THEN LET j == response_json(r.val)
             IN  IF j.exc # "none"
                 THEN [exc |-> "none", val |-> <<"Error: ", j.exc>>, sent |-> sent]
                 ELSE [exc |-> "none", val |-> dict_get(j.val, "response", << >>), sent |-> sent]
        ELSE [exc |-> "none", val |-> <<"Error: Unable to generate response">>, sent |-> sent]

-----------------------------------------------------------------------------
(* Document upload: str(uploaded_file.read(), "utf-8")                     *)

NoFile == [present |-> FALSE, bytes |-> << >>]

File(bytes) == [present |-> TRUE, bytes |-> bytes]

\* the characters of the sampled documents; other code points are not told apart
Chr(cp) == CASE cp = 10  -> "\n"
             [] cp = 32  -> " "
             [] cp = 100 -> "d"
             [] cp = 233 -> "U+00E9"
             [] OTHER    -> "U+FFFD"

RECURSIVE utf8_decode(_)
utf8_decode(b) ==
    IF b = << >> THEN Return(<< >>)
    ELSE IF b[1] < 128
    THEN LET rest == utf8_decode(Tail(b))
         IN  IF rest.exc # "none" THEN rest ELSE Return(<<Chr(b[1])>> \o rest.val)
    ELSE IF b[1] \in 194..223 /\ Len(b) >= 2 /\ b[2] \in 128..191
    THEN LET rest == utf8_decode(Tail(Tail(b)))
         IN  IF rest.exc # "none" THEN rest
             ELSE Return(<<Chr((b[1] - 192) * 64 + (b[2] - 128))>> \o rest.val)
    ELSE Raise("UnicodeDecodeError")

Uploads == { <<100>>, <<195, 169, 100>>, <<100, 255>> }

-----------------------------------------------------------------------------
(* Wall clock: datetime.now().strftime("%H:%M:%S")                         *)

strftime(t) == << (t \div 3600) % 24, (t \div 60) % 60, t % 60 >>

\* the clock readings of one run, in order: a second passes between two readings
\* (the sampled run starts at 23:59:59)
Readings == <<86399, 86400, 86401, 86402>>

-----------------------------------------------------------------------------
(* Widgets *)

Fallback == <<"llama2", "codellama", "mistral">>

NoSelectbox == [options |-> << >>, value |-> ""]

\* st.selectbox: a widget keeps its value from run to run while it is created with
\* the same options; created with other options it is a new widget showing the
\* first option.
st_selectbox(state, options) ==
    IF state.options = options THEN state ELSE [options |-> options, value |-> options[1]]

IdeaPrompt == <<"Give me 5 creative project ideas for a computer science student">>

ExplainPrompt == <<"Explain the concept of machine learning in simple terms">>

NoEvent == [widget |-> "none", text |-> << >>, bytes |-> << >>, choice |-> ""]

ChatEvent(text) == [NoEvent EXCEPT !.widget = "chat_input", !.text = text]

ClickEvent(button) == [NoEvent EXCEPT !.widget = button]

SelectEvent(choice) == [NoEvent EXCEPT !.widget = "selectbox", !.choice = choice]

UploadEvent(bytes) == [NoEvent EXCEPT !.widget = "file_uploader", !.bytes = bytes]

RemoveEvent == [NoEvent EXCEPT !.widget = "file_remove"]

RerunEvent == [NoEvent EXCEPT !.widget = "st.rerun"]

ChatInputs == { << >>, <<" ">>, <<"h">> }

-----------------------------------------------------------------------------
(* main(): the sidebar, lines 68-92 *)

\* lines 72-75: the options offered by the selectbox
ModelOptions_fallback(available) == Fallback

ModelOptions(available) == IF available # << >> THEN available ELSE Fallback

\* lines 89-92
LoadDocument(uf) == IF uf.present THEN utf8_decode(uf.bytes) ELSE Return(<< >>)

\* the state the sidebar leaves: running is the status check's value, fetched the
\* catalog request's, decoded the outcome of lines 89-92
SidebarLocals(sb, running, fetched, decoded) ==
    [ status_ok        |-> running,
      available_models |-> IF running THEN fetched ELSE << >>,
      selectbox        |-> IF running THEN st_selectbox(sb, ModelOptions(fetched))
                           ELSE NoSelectbox,
      selected_model   |-> IF running THEN st_selectbox(sb, ModelOptions(fetched)).value
                           ELSE "llama2",
      rendered         |-> {"file_uploader"} \cup (IF running THEN {"selectbox"} ELSE {}),
      fault            |-> decoded.exc,
      document_context |-> IF decoded.exc = "none" THEN decoded.val ELSE << >> ]

Sidebar(sb, uf, statusResp, tagsResp) ==
    SidebarLocals(sb, check_ollama_status(statusResp).val,
                  get_available_models(tagsResp).val, LoadDocument(uf))

-----------------------------------------------------------------------------
(* main(): the transcript, lines 100-202 *)

Messages(ss) == IF "messages" \in DOMAIN ss THEN ss.messages ELSE << >>

Turn(role, content, t) == [role |-> role, content |-> content, timestamp |-> strftime(t)]

Appended(turn) == [op |-> "append", turn |-> turn]

Generated(prompt, model, context, g) ==
    [op |-> "generate", prompt |-> prompt, model |-> model, context |-> context,
     sent |-> g.sent, returned |-> g.val]

Cleared(n) == [op |-> "clear", dropped |-> n]

\* lines 101-102
InitHistory_always(ss) == SetAttr(ss, "messages", << >>)

InitHistory(ss) == IF "messages" \notin DOMAIN ss THEN SetAttr(ss, "messages", << >>) ELSE ss

\* st.session_state.messages.append(...)
AppendMessage(ss, turn) == [ss EXCEPT !.messages = Append(@, turn)]

\* lines 114-139 (chat input) and 186-200 (quick prompt): the same steps.  user is
\* the turn appended first, g the outcome of the generate_response call made next.
Exchange(ss, user, prompt, model, context, g, t2) ==
    [ss    |-> AppendMessage(AppendMessage(ss, user), Turn("assistant", g.val, t2)),
     trace |-> <<Appended(user), Generated(prompt, model, context, g),
                 Appended(Turn("assistant", g.val, t2))>>]

ExchangeRolledBack(ss, user, prompt, model, context, g, t2) ==
    IF Len(g.val) > 0 /\ g.val[1] = "Error: "
    THEN [ss |-> ss, trace |-> <<Appended(user), Generated(prompt, model, context, g)>>]
    ELSE Exchange(ss, user, prompt, model, context, g, t2)

Submit_rollback(ss, prompt, model, context, genResp, t1, t2) ==
    ExchangeRolledBack(ss, Turn("user", prompt, t1), prompt, model, context,
                       generate_response(prompt, model, context, genResp), t2)

Submit_no_context(ss, prompt, model, context, genResp, t1, t2) ==
    Exchange(ss, Turn("user", prompt, t1), prompt, model, << >>,
             generate_response(prompt, model, << >>, genResp), t2)

Submit(ss, prompt, model, context, genResp, t1, t2) ==
    Exchange(ss, Turn("user", prompt, t1), prompt, model, context,
             generate_response(prompt, model, context, genResp), t2)

\* lines 145-150
stats(messages) ==
    LET total_messages == Len(messages)
        user_messages  == Cardinality({ i \in 1..Len(messages) : messages[i].role = "user" })
    IN  [total |-> total_messages, user |-> user_messages,
         assistant |-> total_messages - user_messages]

\* line 112: if prompt := st.chat_input(...)
ChatPrompt(ev) == ev.widget = "chat_input" /\ ev.text # << >>

\* lines 171-178
QuickButtons(ss, ev) ==
    IF ev.widget = "ideas" THEN SetAttr(ss, "quick_prompt", IdeaPrompt)
    ELSE IF ev.widget = "explain" THEN SetAttr(ss, "quick_prompt", ExplainPrompt)
    ELSE ss

\* line 183: delattr(st.session_state, 'quick_prompt')
TakeQuickPrompt_keep(ss) == ss

TakeQuickPrompt(ss) == DelAttr(ss, "quick_prompt")

\* lines 160-162
ClearChat_keep(ss) == ss

ClearChat(ss) == SetAttr(ss, "messages", << >>)

\* the number of generation requests a run makes
Posts(ss, ev) ==
    (IF ChatPrompt(ev) THEN 1 ELSE 0)
    + (IF ev.widget # "clear" /\ "quick_prompt" \in DOMAIN QuickButtons(ss, ev) THEN 1 ELSE 0)

MainWidgets == {"chat_input", "clear"}

AllWidgets == {"chat_input", "clear", "ideas", "explain"}

\* what a run leaves behind: the sidebar's locals, the widgets created, the session
\* state, the effects in order, and whether it ended in st.rerun()
End(side, widgets, ss, tr, rerun) ==
    [ status_ok        |-> side.status_ok,
      available_models |-> side.available_models,
      selectbox        |-> side.selectbox,
      selected_model   |-> side.selected_model,
      rendered         |-> side.rendered \cup widgets,
      fault            |-> side.fault,
      document_context |-> side.document_context,
      session_state    |-> ss,
      trace            |-> tr,
      rerun            |-> rerun ]

\* lines 112-139
ChatColumn(side, ss, ev, gens, times) ==
    IF ChatPrompt(ev)
    THEN Submit(ss, ev.text, side.selected_model, side.document_context,
                gens[1], times[1], times[2])
    ELSE [ss |-> ss, trace |-> << >>]

\* lines 193-202
EndQuick(side, tr, quick) == End(side, AllWidgets, quick.ss, tr \o quick.trace, TRUE)

\* lines 181-202; k: the generation requests the run made before
QuickPrompt(side, ss, tr, k, gens, times) ==
    IF "quick_prompt" \in DOMAIN ss
    THEN EndQuick(side, tr,
                  Submit(TakeQuickPrompt(ss), ss.quick_prompt, side.selected_model,
                         side.document_context, gens[k + 1],
                         times[2 * k + 1], times[2 * k + 2]))
    ELSE End(side, AllWidgets, ss, tr, FALSE)

\* lines 141-202
InfoColumn(side, chat, ev, gens, times) ==
    IF ev.widget = "clear"
    THEN End(side, MainWidgets, ClearChat(chat.ss),
             chat.trace \o <<Cleared(Len(Messages(chat.ss)))>>, TRUE)
    ELSE QuickPrompt(side, QuickButtons(chat.ss, ev), chat.trace,
                     IF ChatPrompt(ev) THEN 1 ELSE 0, gens, times)

\* lines 94-202; a run in which line 91 raised ends there
Columns(side, ss, ev, gens, times) ==
    IF side.fault # "none"
    THEN End(side, {}, ss, << >>, FALSE)
    ELSE InfoColumn(side, ChatColumn(side, InitHistory(ss), ev, gens, times), ev, gens, times)

\* One run of main().  gens: the service's answers to the run's generation
\* requests, in order; times: the clock readings of the run, in order.
Script(ss, sb, uf, ev, statusResp, tagsResp, gens, times) ==
    Columns(Sidebar(sb, uf, statusResp, tagsResp), ss, ev, gens, times)

-----------------------------------------------------------------------------
(* The session: one action per user event, each a whole run of main() *)

TagsSamples ==
    { NetworkError("ConnectionError"), Http(503, NotJson),
      Catalog(<< >>), Catalog(<<"phi", "mistral">>) }

GenerateSamples ==
    { NetworkError("ConnectionError"), Http(500, NotJson),
      Http(200, Json(EmptyDict)), Http(200, Json([response |-> <<"H", "i">>])) }

IsSubmission(ev) ==
    (ev.widget = "chat_input" /\ ev.text # << >>) \/ ev.widget \in {"ideas", "explain"}

Init ==
    /\ session_state = EmptyDict
    /\ selectbox = NoSelectbox
    /\ uploaded_file = NoFile
    /\ rendered = {}
    /\ status_ok = FALSE
    /\ available_models = << >>
    /\ selected_model = ""
    /\ document_context = << >>
    /\ fault = "none"
    /\ rerun_requested = FALSE
    /\ event = NoEvent
    /\ trace = << >>
    /\ submitted = 0
    /\ client = [op |-> "none"]

\* the widget states the framework hands to the run an event starts
SelectboxAt(ev) ==
    IF ev.widget = "selectbox" THEN [selectbox EXCEPT !.value = ev.choice] ELSE selectbox

UploaderAt(ev) ==
    IF ev.widget = "file_uploader" THEN File(ev.bytes)
    ELSE IF ev.widget = "file_remove" THEN NoFile
    ELSE uploaded_file

Commit(out, ev) ==
    /\ session_state' = out.session_state
    /\ selectbox' = out.selectbox
    /\ uploaded_file' = UploaderAt(ev)
    /\ rendered' = out.rendered
    /\ status_ok' = out.status_ok
    /\ available_models' = out.available_models
    /\ selected_model' = out.selected_model
    /\ document_context' = out.document_context
    /\ fault' = out.fault
    /\ rerun_requested' = out.rerun
    /\ event' = ev
    /\ trace' = out.trace
    /\ submitted' = IF ev.widget = "clear" THEN 0
                    ELSE IF IsSubmission(ev) THEN submitted + 1
                    ELSE submitted
    /\ UNCHANGED client

Run(ev) ==
    \E statusResp \in TagsSamples :
    \E tagsResp \in (IF check_ollama_status(statusResp).val
                     THEN TagsSamples ELSE {statusResp}) :
    \E gens \in [1..Posts(session_state, ev) -> GenerateSamples] :
        Commit(Script(session_state, SelectboxAt(ev), UploaderAt(ev), ev,
                      statusResp, tagsResp, gens, Readings), ev)

CanOperate(widget) == ~rerun_requested /\ widget \in rendered

HasRoom == Len(Messages(session_state)) + 2 <= MaxTurns

\* the page is loaded, or re-run with no widget changed
PageRun == ~rerun_requested /\ Run(NoEvent)

ChatInput ==
    /\ CanOperate("chat_input")
    /\ \E text \in ChatInputs : (text = << >> \/ HasRoom) /\ Run(ChatEvent(text))

ClickClear == CanOperate("clear") /\ Run(ClickEvent("clear"))

ClickIdeas == CanOperate("ideas") /\ HasRoom /\ Run(ClickEvent("ideas"))

ClickExplain == CanOperate("explain") /\ HasRoom /\ Run(ClickEvent("explain"))

SelectModel ==
    /\ CanOperate("selectbox")
    /\ \E choice \in Range(selectbox.options) \ {selectbox.value} : Run(SelectEvent(choice))

UploadFile ==
    /\ CanOperate("file_uploader")
    /\ \E bytes \in Uploads : Run(UploadEvent(bytes))

RemoveFile ==
    /\ CanOperate("file_uploader")
    /\ uploaded_file.present
    /\ Run(RemoveEvent)

\* st.rerun(): the framework runs the script again, no widget changed
Rerun == rerun_requested /\ Run(RerunEvent)

Next ==
    \/ PageRun
    \/ ChatInput
    \/ ClickClear
    \/ ClickIdeas
    \/ ClickExplain
    \/ SelectModel
    \/ UploadFile
    \/ RemoveFile
    \/ Rerun

Spec == Init /\ [][Next]_vars

-----------------------------------------------------------------------------
(* The client alone: each operation applied to every sampled answer of the *)
(* service                                                                 *)

ClientPrompts == { <<"h">>, <<" ">>, IdeaPrompt }

ClientContexts == { << >>, <<"d">>, <<"U+00E9", "d">>, <<"\n">> }

ClientModels == { "llama2", "mistral", "phi" }

CallCheckStatus ==
    /\ \E resp \in TagsResponses :
         client' = [op |-> "check_ollama_status", resp |-> resp,
                    out |-> check_ollama_status(resp)]
    /\ UNCHANGED sessionVars

CallListModels ==
    /\ \E resp \in TagsResponses :
         client' = [op |-> "get_available_models", resp |-> resp,
                    out |-> get_available_models(resp)]
    /\ UNCHANGED sessionVars

CallGenerate ==
    /\ \E prompt \in ClientPrompts, model \in ClientModels, context \in ClientContexts,
          resp \in GenerateResponses :
         client' = [op |-> "generate_response", prompt |-> prompt, model |-> model,
                    context |-> context, resp |-> resp,
                    out |-> generate_response(prompt, model, context, resp)]
    /\ UNCHANGED sessionVars

NextClient ==
    \/ CallCheckStatus
    \/ CallListModels
    \/ CallGenerate

SpecClient == Init /\ [][NextClient]_vars

-----------------------------------------------------------------------------
(* Properties *)

Transcript == Messages(session_state)

IsBlank(text) == \A i \in 1..Len(text) : text[i] \in {" ", "\n"}

SubmittedText(ev) ==
    IF ev.widget = "ideas" THEN IdeaPrompt
    ELSE IF ev.widget = "explain" THEN ExplainPrompt
    ELSE ev.text

Ops(tr) == { tr[i].op : i \in 1..Len(tr) }

FixedError == <<"Error: Unable to generate response">>

\* C1: between user events, since the session started or was last cleared, the
\* transcript holds exactly two turns per non-empty submission entered (chat input
\* or quick-action button), whatever the service answered.
C1_TwoTurnsPerSubmission == Len(Transcript) = 2 * submitted

C1_Witness ==
    /\ submitted = 2
    /\ Len(Transcript) = 4
    /\ Transcript[1].content = IdeaPrompt
    /\ Transcript[2].content = <<"Error: ", "ConnectionError">>
    /\ Transcript[3].content = <<"h">>
    /\ Transcript[4].content = FixedError

\* C2: a chat submission that is empty or only whitespace creates no turn, calls
\* the generation endpoint not at all and leaves the total turn count unchanged.
C2_BlankRejected ==
    [][ (event'.widget = "chat_input" /\ IsBlank(event'.text))
        => /\ Ops(trace') \cap {"append", "generate"} = {}
           /\ stats(Messages(session_state')).total = stats(Transcript).total ]_vars

ClearStep ==
    \/ event'.widget = "clear"
    \/ event'.widget = "st.rerun" /\ event.widget = "clear"

NoTurns == [total |-> 0, user |-> 0, assistant |-> 0]

\* C3 as stated: the clear run and the rerun it triggers leave the transcript empty
\* (all three statistics 0) and leave selected_model and document_context as they were.
C3_ClearKeepsSelection ==
    [][ ClearStep
        => /\ Messages(session_state') = << >>
           /\ stats(Messages(session_state')) = NoTurns
           /\ selected_model' = selected_model
           /\ document_context' = document_context ]_vars

\* C3 amended: the clear run and the rerun it triggers leave the transcript empty
\* (all three statistics 0) and document_context as it was; selected_model is as it
\* was whenever the run offers the same model options as the run before it.
C3_ClearEmptiesTranscript ==
    [][ ClearStep
        => /\ Messages(session_state') = << >>
           /\ stats(Messages(session_state')) = NoTurns
           /\ document_context' = document_context
           /\ (selectbox'.options = selectbox.options => selected_model' = selected_model) ]_vars

C3_Witness ==
    /\ event.widget = "clear"
    /\ \E i \in 1..Len(trace) : trace[i].op = "clear" /\ trace[i].dropped = 4
    /\ Transcript = << >>
    /\ document_context # << >>
    /\ selected_model = "mistral"

Succeeded(resp) == resp.kind = "http" /\ resp.status_code = 200

WellFormedCatalog(resp) ==
    /\ Succeeded(resp)
    /\ resp.body.json
    /\ "models" \in DOMAIN resp.body.obj
       => \A i \in 1..Len(resp.body.obj.models) : "name" \in DOMAIN resp.body.obj.models[i]

ReportedNames(resp) ==
    IF "models" \in DOMAIN resp.body.obj
    THEN [i \in 1..Len(resp.body.obj.models) |-> resp.body.obj.models[i].name]
    ELSE << >>

\* C4: whatever the service does, each client operation returns a value and never
\* raises: check_ollama_status is true exactly on status 200; get_available_models
\* is the reported names in order on success and empty on any failure;
\* generate_response is the response text on success (empty when the field is
\* absent), the fixed error text on another status, and an error text embedding
\* the failure detail on a network failure.
C4_ClientNeverRaises ==
    /\ client.op = "check_ollama_status"
       => /\ client.out.exc = "none"
          /\ client.out.val <=> Succeeded(client.resp)
    /\ client.op = "get_available_models"
       => /\ client.out.exc = "none"
          /\ client.out.val = IF WellFormedCatalog(client.resp)
                              THEN ReportedNames(client.resp) ELSE << >>
    /\ client.op = "generate_response"
       => /\ client.out.exc = "none"
          /\ client.resp.kind = "error"
             => client.out.val = <<"Error: ", client.resp.detail>>
          /\ (client.resp.kind = "http" /\ client.resp.status_code # 200)
             => client.out.val = FixedError
          /\ (Succeeded(client.resp) /\ client.resp.body.json)
             => client.out.val = IF "response" \in DOMAIN client.resp.body.obj
                                 THEN client.resp.body.obj.response ELSE << >>

C4_Witness ==
    /\ client.op = "check_ollama_status"
    /\ client.resp.kind = "error"
    /\ client.out.exc = "none"
    /\ client.out.val = FALSE

\* C5: an upload whose bytes are not valid UTF-8 ends in a handled decode error (the
\* run does not end in an unhandled exception), document_context keeps its value
\* and the transcript is unchanged.
C5_DecodeErrorHandled ==
    [][ (event'.widget = "file_uploader" /\ utf8_decode(event'.bytes).exc # "none")
        => /\ fault' = "none"
           /\ document_context' = document_context
           /\ Messages(session_state') = Transcript ]_vars

\* C6: generate_response sends one request; its prompt field is the context, two
\* newlines, then the prompt when the context is non-empty, and the prompt alone
\* when the context is empty; it carries the chosen model and stream = false.
C6_PromptConstruction ==
    client.op = "generate_response"
    => LET sent == client.out.sent
           p    == sent[1].prompt
           c    == client.context
           q    == client.prompt
       IN  /\ Len(sent) = 1
           /\ sent[1].model = client.model
           /\ sent[1].stream = FALSE
           /\ IF c = << >>
              THEN p = q
              ELSE /\ Len(p) = Len(c) + 2 + Len(q)
                   /\ SubSeq(p, 1, Len(c)) = c
                   /\ p[Len(c) + 1] = "\n"
                   /\ p[Len(c) + 2] = "\n"
                   /\ SubSeq(p, Len(c) + 3, Len(p)) = q

C6_Witness ==
    /\ client.op = "generate_response"
    /\ client.context = <<"U+00E9", "d">>
    /\ client.out.sent[1].prompt = <<"U+00E9", "d", "\n", "\n", "h">>

\* C7: a run started by a non-empty submission does, in this order and once each:
\* append the user turn with the submitted text; call generate_response with that
\* text, the selected model and the document context; append an assistant turn whose
\* content is the value returned.  Both turns end the transcript, the user turn
\* included when the value returned is an error text.
C7_SubmissionSteps ==
    IsSubmission(event)
    => LET n == Len(Transcript)
       IN  /\ Len(trace) = 3
           /\ trace[1].op = "append"
           /\ trace[1].turn.role = "user"
           /\ trace[1].turn.content = SubmittedText(event)
           /\ trace[2].op = "generate"
           /\ trace[2].prompt = SubmittedText(event)
           /\ trace[2].model = selected_model
           /\ trace[2].context = document_context
           /\ Len(trace[2].sent) = 1
           /\ trace[3].op = "append"
           /\ trace[3].turn.role = "assistant"
           /\ trace[3].turn.content = trace[2].returned
           /\ n >= 2
           /\ Transcript[n - 1] = trace[1].turn
           /\ Transcript[n] = trace[3].turn

C7_Witness ==
    /\ event.widget = "ideas"
    /\ Len(Transcript) = 4
    /\ document_context # << >>
    /\ selected_model = "phi"
    /\ Len(trace) = 3
    /\ trace[2].returned = <<"Error: ", "ConnectionError">>
    /\ Transcript[3].content = IdeaPrompt

\* C8: every step leaves the transcript an extension of what it was (same turns,
\* same order, same roles, contents and timestamps), or empties it in a run started
\* by the clear button; a run on an initialised session does not reset it.
C8_AppendOnly ==
    [][ \/ IsPrefix(Transcript, Messages(session_state'))
        \/ event'.widget = "clear" /\ Messages(session_state') = << >> ]_vars

C8_Witness ==
    /\ event.widget = "none"
    /\ fault = "none"
    /\ Len(Transcript) = 4

\* C9: after every run the selected model is one of the models the service
\* reported in that run or one of llama2, codellama, mistral; when the status check
\* succeeded and the catalog request returned at least one model it is one of the
\* reported models.
C9_SelectionFromCatalog ==
    rendered # {}
    => /\ selected_model \in Range(available_models) \cup {"llama2", "codellama", "mistral"}
       /\ (status_ok /\ available_models # << >>)
          => selected_model \in Range(available_models)

C9_Witness ==
    /\ status_ok
    /\ available_models = <<"phi", "mistral">>
    /\ selected_model = "mistral"
    /\ event.widget = "selectbox"

\* C10: after every run the transcript has even length and its roles alternate
\* user, assistant, ... from a user turn, and session_state holds no quick_prompt.
C10_Alternation ==
    /\ Len(Transcript) % 2 = 0
    /\ \A i \in 1..Len(Transcript) :
         Transcript[i].role = IF i % 2 = 1 THEN "user" ELSE "assistant"
    /\ "quick_prompt" \notin DOMAIN session_state

C10_Witness ==
    /\ Len(Transcript) = 4
    /\ Transcript[1].content = ExplainPrompt
    /\ Transcript[3].content = IdeaPrompt
    /\ rerun_requested

====
